---------------------------- MODULE Spec2Model ----------------------------
(***************************************************************************)
(* Model of ipgen/ipgen.py (IP-core Building Framework for FPGAs):         *)
(* SystemBuilder.render, SystemBuilder.build and the three packagers       *)
(* build_package_general / build_package_axi / build_package_avalon.       *)
(*                                                                         *)
(* Texts are sequences of tokens, str.count(s) is the number of tokens     *)
(* equal to s.  File contents are sequences of chunks.  A path is the      *)
(* sequence of its components (so 'd/' + '/' + 'data' and 'd/data/' are    *)
(* the same directory, as they are for the operating system).  An optional *)
(* value is <<>> (None) or <<x>>.                                          *)
(***************************************************************************)
EXTENDS Integers, Sequences, FiniteSets, TLC

VARIABLES
    fs,             \* the file system: directories and files with their content
    call,           \* the arguments of the last call
    result,         \* how the last call ended
    trace,          \* what the last call did, in program order
    nbuilds,        \* the number of build calls so far
    log2_values     \* the values of log2

vars == <<fs, call, result, trace, nbuilds, log2_values>>

\* ------------------------------------------------------------------ bounds
MaxEntries == 2     \* parameters and ports of the analyzed top module
MaxBuilds == 2      \* build calls on the same output tree
MaxK      == 29     \* render is called with burst lengths 2^0 .. 2^MaxK

None == <<>>
Some(x) == <<x>>

\* ------------------------------------------------- IEEE-754 double arithmetic
(* log2(v) is int(math.ceil(math.log(v, 2))).  math.log(v, 2) is the double *)
(* log(v) divided by the double log(2): each logarithm is the real value    *)
(* rounded to 53 bits, and so is the quotient.  Natural numbers of up to    *)
(* 90 bits are little-endian sequences of NumLimbs limbs of LimbBits bits;  *)
(* a double is [m, e], the value m * 2^e with 2^52 <= m < 2^53 (or m = 0).  *)
(* The logarithm is modelled for the powers of two, ln(2^n) = n * ln 2,     *)
(* with ln 2 given to Ln2Scale binary places.                               *)
LimbBits == 15
LimbBase == 32768
NumLimbs == 6
Ln2Scale == 75
ZeroLimbs == <<0, 0, 0, 0, 0, 0>>
\* floor(ln(2) * 2^75) = 26186360105375038791247
Ln2Limbs == <<24143, 30618, 31289, 1533, 22713, 0>>

RECURSIVE MulSmallFrom(_, _, _, _)
MulSmallFrom(a, n, i, carry) ==
    IF i > NumLimbs THEN <<>>
    ELSE LET t == a[i] * n + carry
         IN  <<t % LimbBase>> \o MulSmallFrom(a, n, i + 1, t \div LimbBase)
MulSmall(a, n) == MulSmallFrom(a, n, 1, 0)

RECURSIVE DoubleFrom(_, _, _)
DoubleFrom(a, i, carry) ==
    IF i > NumLimbs THEN <<>>
    ELSE LET t == 2 * a[i] + carry
         IN  <<t % LimbBase>> \o DoubleFrom(a, i + 1, t \div LimbBase)
Double(a) == DoubleFrom(a, 1, 0)

RECURSIVE IncFrom(_, _)
IncFrom(a, i) ==
    IF i > NumLimbs THEN a
    ELSE IF a[i] + 1 < LimbBase THEN [a EXCEPT ![i] = a[i] + 1]
    ELSE IncFrom([a EXCEPT ![i] = 0], i + 1)
Inc(a) == IncFrom(a, 1)

RECURSIVE GeqFrom(_, _, _)
GeqFrom(a, b, i) ==
    IF i = 0 THEN TRUE
    ELSE IF a[i] # b[i] THEN a[i] > b[i]
    ELSE GeqFrom(a, b, i - 1)
Geq(a, b) == GeqFrom(a, b, NumLimbs)

RECURSIVE SubFrom(_, _, _, _)
SubFrom(a, b, i, borrow) ==
    IF i > NumLimbs THEN <<>>
    ELSE LET t == a[i] - b[i] - borrow
         IN  IF t < 0 THEN <<t + LimbBase>> \o SubFrom(a, b, i + 1, 1)
             ELSE <<t>> \o SubFrom(a, b, i + 1, 0)
Sub(a, b) == SubFrom(a, b, 1, 0)

Bit(a, j) == (a[(j \div LimbBits) + 1] \div (2 ^ (j % LimbBits))) % 2
LimbOrZero(a, i) == IF i <= NumLimbs THEN a[i] ELSE 0
ShiftLimb(a, s, i) ==
    LET ls == s \div LimbBits
        bs == s % LimbBits
    IN  (LimbOrZero(a, i + ls) \div (2 ^ bs))
        + (LimbOrZero(a, i + ls + 1) % (2 ^ bs)) * (2 ^ (LimbBits - bs))
ShiftRight(a, s) ==
    <<ShiftLimb(a, s, 1), ShiftLimb(a, s, 2), ShiftLimb(a, s, 3),
      ShiftLimb(a, s, 4), ShiftLimb(a, s, 5), ShiftLimb(a, s, 6)>>
LowBitsZero(a, s) == \A j \in 0..(s - 1) : Bit(a, j) = 0
BitLen(a) ==
    IF a = ZeroLimbs THEN 0
    ELSE 1 + (CHOOSE j \in 0..(NumLimbs * LimbBits - 1) :
                 /\ Bit(a, j) = 1
                 /\ \A h \in (j + 1)..(NumLimbs * LimbBits - 1) : Bit(a, h) = 0)
IsOdd(a) == a[1] % 2 = 1
\* 2^53 = 2^(3 * 15) * 2^8
Is2p53(a) == a = [ZeroLimbs EXCEPT ![4] = 256]

\* Round to nearest, ties to even: a is the 53-bit mantissa, guard the first
\* bit cut off, sticky whether any later bit cut off is set.
Normalize(a, ex, guard, sticky) ==
    LET up == guard /\ (sticky \/ IsOdd(a))
        b  == IF up THEN Inc(a) ELSE a
    IN  IF Is2p53(b) THEN [m |-> ShiftRight(b, 1), e |-> ex + 1]
        ELSE [m |-> b, e |-> ex]

\* The double nearest to a * 2^ex, for a of at least 54 bits.
RoundTo53(a, ex) ==
    LET cut == BitLen(a) - 53
    IN  Normalize(ShiftRight(a, cut), ex + cut,
                  Bit(a, cut - 1) = 1, ~LowBitsZero(a, cut - 1))

Exponent(v) == CHOOSE pw \in 0..MaxK : 2 ^ pw = v

FZero == [m |-> ZeroLimbs, e |-> 0]

\* math.log(x) of a power of two x = 2^pw
LogOfPow2(pw) ==
    IF pw = 0 THEN FZero
    ELSE RoundTo53(MulSmall(Ln2Limbs, pw), 0 - Ln2Scale)

\* One step of the restoring division: the next quotient bit.
DivStep(st, den) ==
    LET bit == Geq(st.r, den)
        r1  == IF bit THEN Sub(st.r, den) ELSE st.r
    IN  [q |-> IF bit THEN Inc(Double(st.q)) ELSE Double(st.q),
         r |-> Double(r1),
         n |-> st.n - 1]
RECURSIVE DivBits(_, _)
DivBits(st, den) == IF st.n = 0 THEN st ELSE DivBits(DivStep(st, den), den)

\* x / y of two positive doubles (or x = 0), rounded to nearest even
FDiv(x, y) ==
    IF x.m = ZeroLimbs THEN FZero
    ELSE LET big == Geq(x.m, y.m)
             d   == DivBits([q |-> ZeroLimbs,
                             r |-> IF big THEN x.m ELSE Double(x.m),
                             n |-> 53], y.m)
             ex  == x.e - y.e - (IF big THEN 52 ELSE 53)
             gt  == Geq(d.r, y.m) /\ d.r # y.m
         IN  Normalize(d.q, ex, Geq(d.r, y.m), gt)

ToInt(a) == a[1] + LimbBase * a[2]

\* int(math.ceil(x)) of a double 0 <= x < 2^30
FCeil(x) ==
    IF x.e >= 0 THEN ToInt(x.m)
    ELSE ToInt(ShiftRight(x.m, 0 - x.e))
         + (IF LowBitsZero(x.m, 0 - x.e) THEN 0 ELSE 1)

\* int(math.ceil(math.log(2^pw, 2)))
CeilLogOfPow2(pw) == FCeil(FDiv(LogOfPow2(pw), LogOfPow2(1)))

\* int(math.ceil(math.log(v, 2))) for v = 2^0 .. 2^MaxK
Log2Table == [pw \in 0..MaxK |-> CeilLogOfPow2(pw)]

\* log2 is a pure function: log2_values holds its values on the powers of
\* two, computed in Init and never changed
log2(v) == log2_values[Exponent(v)]


\* ---------------------------------------------------------------- texts
\* str.count(tok): occurrences of tok in the text r
Count(r, tok) == Cardinality({i \in 1..Len(r) : r[i] = tok})

\* str.replace(old, new)
Replace(r, old, new) == [i \in 1..Len(r) |-> IF r[i] = old THEN new ELSE r[i]]

\* [f(s[1]), ..., f(s[n])]
Map(s, f(_)) == [i \in 1..Len(s) |-> f(s[i])]

\* ------------------------------------------- the analyzed module interface
(* What RtlConverter hands to build: top_parameters, an ordered mapping of  *)
(* name -> pyverilog Parameter / Localparam node, and top_ioports, an       *)
(* ordered mapping of name -> (Input / Output / Inout node, width).         *)
(* A parameter node: kind (the node class), name, spelling (the name as     *)
(* tokens), integer (declared with the integer keyword), value (the tokens  *)
(* of its value expression).                                                *)
ParamPool ==
    << [kind |-> "Parameter",  name |-> "WIDTH", spelling |-> <<"WIDTH">>,
        integer |-> FALSE, value |-> <<"42">>],
       [kind |-> "Parameter",  name |-> "NAME",  spelling |-> <<"NAME">>,
        integer |-> FALSE, value |-> <<"\"", "hello", "\"">>],
       [kind |-> "Localparam", name |-> "LP",    spelling |-> <<"LP">>,
        integer |-> FALSE, value |-> <<"8'hff">>],
       [kind |-> "Parameter",  name |-> "DEPTH", spelling |-> <<"DEPTH">>,
        integer |-> TRUE,  value |-> <<"16">>],
       [kind |-> "Parameter",  name |-> "MASK",  spelling |-> <<"MASK">>,
        integer |-> FALSE, value |-> <<"8'hff">>],
       [kind |-> "Parameter",  name |-> "use_localparam",
        spelling |-> <<"use_", "localparam">>,
        integer |-> FALSE, value |-> <<"1">>] >>

(* A port node: kind (the node class; "Other" is any node that is neither   *)
(* Input nor Output nor Inout), name, width (None or the msb and lsb        *)
(* expressions as tokens), ids (the identifiers of the msb expression),     *)
(* signed, pwidth (the resolved width).                                     *)
PortPool ==
    << [kind |-> "Output", name |-> "dout",
        width |-> Some([msb |-> <<"WIDTH", "-", "1">>, lsb |-> <<"0">>]),
        ids |-> <<"WIDTH">>, signed |-> FALSE, pwidth |-> 42],
       [kind |-> "Input",  name |-> "din", width |-> None,
        ids |-> <<>>, signed |-> FALSE, pwidth |-> 1],
       [kind |-> "Inout",  name |-> "sda", width |-> None,
        ids |-> <<>>, signed |-> FALSE, pwidth |-> 1],
       [kind |-> "Other",  name |-> "aux",
        width |-> Some([msb |-> <<"7">>, lsb |-> <<"0">>]),
        ids |-> <<>>, signed |-> FALSE, pwidth |-> 8] >>

NamesOf(pool) == {pool[i].name : i \in 1..Len(pool)}
InNames(x, names) == x.name \in names
\* the sub-mappings of a pool with at most max entries, in the pool's order
SubLists(pool, max) ==
    { SelectSeq(pool, LAMBDA x : InNames(x, names)) :
        names \in {n \in SUBSET NamesOf(pool) : Cardinality(n) <= max} }

\* ------------------------------------------------ pyverilog code generator
\* ASTCodeGenerator.visit of a Parameter / Localparam node
VisitParam(p) ==
    <<IF p.kind = "Localparam" THEN "localparam" ELSE "parameter">>
    \o (IF p.integer THEN <<"integer">> ELSE <<>>)
    \o p.spelling \o <<"=">> \o p.value \o <<";">>

\* ASTCodeGenerator.visit of a Width node
VisitWidth(w) == <<"[">> \o w.msb \o <<":">> \o w.lsb \o <<"]">>

WidthTokens(pv) == IF pv.width = None THEN <<>> ELSE VisitWidth(pv.width[1])

\* ASTCodeGenerator.visit(vast.Wire(name, width, signed))
VisitWire(name, pv) ==
    <<"wire">> \o (IF pv.signed THEN <<"signed">> ELSE <<>>)
    \o WidthTokens(pv) \o <<name, ";">>

\* ASTCodeGenerator.visit(vast.Ioport(first, vast.Wire(...)))
VisitIoport(name, pv) ==
    <<CASE pv.kind = "Input"  -> "input"
        [] pv.kind = "Output" -> "output"
        [] pv.kind = "Inout"  -> "inout"
        [] OTHER              -> "port", "wire">>
    \o (IF pv.signed THEN <<"signed">> ELSE <<>>)
    \o WidthTokens(pv) \o <<name>>

\* ir.replaceIdentifiers(msb, _d) rendered: every identifier of the msb
\* expression becomes the IP-XACT parameter lookup
ReplaceIdentifiers(pv) ==
    [i \in 1..Len(pv.width[1].msb) |->
        LET t == pv.width[1].msb[i]
        IN  IF \E j \in 1..Len(pv.ids) : pv.ids[j] = t
            THEN "(spirit:decode(id('MODELPARAM_VALUE." \o t \o "')))"
            ELSE t]

IsLocalparamText(r) == Count(r, "localparam") > 0


\* ------------------------------------------------------ SystemBuilder.render
TEMPLATE_DIR == "TEMPLATE_DIR"
TemplatePath(name) == <<TEMPLATE_DIR, name>>

\* the keyword arguments of render and their defaults
RenderDefaults ==
    [ext_addrwidth |-> 32, ext_burstlength |-> 256, single_clock |-> FALSE,
     hdlname |-> None, common_hdlname |-> None, testname |-> None,
     ipcore_version |-> None, memimg |-> None, binfile |-> FALSE,
     usertestcode |-> None, simaddrwidth |-> None,
     mpd_parameters |-> None, mpd_ports |-> None,
     tcl_parameters |-> None, tcl_ports |-> None,
     clock_hperiod_userlogic |-> None, clock_hperiod_bus |-> None,
     ignore_protocol_error |-> FALSE]

OrEmpty(opt) == IF opt = None THEN <<>> ELSE opt[1]

\* the template_dict render hands to the template
TemplateDict(userlogic_name, masterlist, slavelist, def_top_parameters, def_top_localparams, def_top_ioports, name_top_ioports, kw) ==
    LET a == kw @@ RenderDefaults
    IN  [userlogic_name |-> userlogic_name,
         masterlist |-> masterlist,
         slavelist |-> slavelist,
         def_top_parameters |-> def_top_parameters,
         def_top_localparams |-> def_top_localparams,
         def_top_ioports |-> def_top_ioports,
         name_top_ioports |-> name_top_ioports,
         ext_addrwidth |-> a.ext_addrwidth,
         ext_burstlength |-> a.ext_burstlength,
         ext_burstlen_width |-> log2(a.ext_burstlength),
         hdlname |-> a.hdlname,
         common_hdlname |-> a.common_hdlname,
         testname |-> a.testname,
         ipcore_version |-> a.ipcore_version,
         memimg |-> IF a.memimg # None THEN a.memimg[1] ELSE "None",
         binfile |-> a.binfile,
         usertestcode |-> IF a.usertestcode = None THEN "" ELSE a.usertestcode[1],
         simaddrwidth |-> a.simaddrwidth,
         mpd_parameters |-> OrEmpty(a.mpd_parameters),
         mpd_ports |-> OrEmpty(a.mpd_ports),
         tcl_parameters |-> OrEmpty(a.tcl_parameters),
         tcl_ports |-> OrEmpty(a.tcl_ports),
         clock_hperiod_userlogic |-> a.clock_hperiod_userlogic,
         clock_hperiod_bus |-> a.clock_hperiod_bus,
         single_clock |-> a.single_clock,
         ignore_protocol_error |-> a.ignore_protocol_error]

\* ---------------------------------------------------- contents and steps
\* the text a template renders from a template_dict
Rendered(template_file, dict) ==
    [kind |-> "rendered", name |-> template_file, dict |-> dict]
\* the text read from a file
FileText(path) == [kind |-> "file", name |-> path]
\* asttocode.visit(userlogic_ast)
UserlogicCode(topmodule) == [kind |-> "userlogic_code", name |-> topmodule]

Step(op, arg, data) == [op |-> op, arg |-> arg, data |-> data]
RenderStep(template_file, dict) == Step("render", template_file, dict)
WriteStep(path, content) == Step("write", path, content)
ReadStep(path) == Step("read", path, <<>>)
MkdirStep(path) == Step("mkdir", path, <<>>)
CopyStep(src, dst) == Step("copy", dst, src)

\* ------------------------------------------------------ SystemBuilder.build
\* the clock check without its single_clock test
ClockErrorInAnyMode(configs) == configs.hperiod_ulogic # configs.hperiod_bus

ClockError(configs) ==
    configs.single_clock /\ configs.hperiod_ulogic # configs.hperiod_bus

IsNotLocalparamText(r) == ~IsLocalparamText(r)
SemicolonToComma(r) == Replace(r, ";", ",")

\* build's def_top_parameters / def_top_localparams
BuildDefTopParameters(top_parameters) ==
    Map(SelectSeq(Map(top_parameters, VisitParam), IsNotLocalparamText),
        SemicolonToComma)
BuildDefTopLocalparams(top_parameters) ==
    SelectSeq(Map(top_parameters, VisitParam), IsLocalparamText)

\* build's def_top_ioports / name_top_ioports
BuildDefTopIoports(if_type, top_ioports) ==
    [i \in 1..Len(top_ioports) |->
        IF if_type = "avalon"
        THEN VisitIoport("coe_" \o top_ioports[i].name, top_ioports[i])
        ELSE VisitIoport(top_ioports[i].name, top_ioports[i])]
NameOf(x) == x.name
NameTopIoports(top_ioports) == Map(top_ioports, NameOf)

NodeTemplateFile(if_type) ==
    IF if_type = "axi" THEN "node_axi.txt"
    ELSE IF if_type = "avalon" THEN "node_avalon.txt"
    ELSE "node_general.txt"

NodeDict(c) ==
    TemplateDict(c.userlogic_topmodule, c.masterlist, c.slavelist,
                 BuildDefTopParameters(c.top_parameters),
                 BuildDefTopLocalparams(c.top_parameters),
                 BuildDefTopIoports(c.configs.if_type, c.top_ioports),
                 NameTopIoports(c.top_ioports),
                 [ext_addrwidth |-> c.configs.ext_addrwidth,
                  ext_burstlength |-> 256,
                  single_clock |-> c.configs.single_clock])

\* the wrapper with its two parts exchanged
SynthesizedCodeSwapped(c) ==
    <<[kind |-> "userlogic_code", name |-> c.userlogic_topmodule],
      [kind |-> "rendered", name |-> NodeTemplateFile(c.configs.if_type),
       dict |-> NodeDict(c)]>>

SynthesizedCode(c) ==
    <<Rendered(NodeTemplateFile(c.configs.if_type), NodeDict(c)),
      UserlogicCode(c.userlogic_topmodule)>>

CommonFiles(if_type) ==
    IF if_type = "axi"
    THEN <<"axi_master_interface.v", "axi_lite_master_interface.v",
           "axi_slave_interface.v", "axi_lite_slave_interface.v">>
    ELSE IF if_type = "avalon"
    THEN <<"avalon_master_interface.v", "avalon_lite_master_interface.v",
           "avalon_slave_interface.v", "avalon_lite_slave_interface.v">>
    ELSE <<>>

ReadTemplateText(name) == FileText(TemplatePath(name))
ReadTemplateStep(name) == ReadStep(TemplatePath(name))
CommonCode(if_type) == Map(CommonFiles(if_type), ReadTemplateText)

AnalyzeStep(name) == Step("analyze", name, <<>>)

\* lines 108-189 of build: analysis, code generation, the node template,
\* the shared interface sources, the settings print
Prologue(c) ==
    << AnalyzeStep("RtlConverter"), AnalyzeStep("generate"),
       AnalyzeStep("getResourceDefinitions"), AnalyzeStep("getTopParameters"),
       AnalyzeStep("getTopIOPorts"), AnalyzeStep("getNotFoundModules"),
       AnalyzeStep("dumpTargetObject"), AnalyzeStep("ASTCodeGenerator"),
       RenderStep(NodeTemplateFile(c.configs.if_type), NodeDict(c)) >>
    \o Map(CommonFiles(c.configs.if_type), ReadTemplateStep)
    \o << Step("log", "Synthesis Setting", c.configs) >>


\* ------------------------------------------------- build_package_general
OutputPath(configs) == <<configs.output>>

GeneralPlan(c) ==
    << WriteStep(OutputPath(c.configs),
                 SynthesizedCode(c) \o CommonCode(c.configs.if_type)) >>

\* --------------------------------------------- names shared by axi / avalon
ipcore_version == "_v1_00_a"
mpd_version == "_v2_1_0"
\* the package directory, were it named by configs['output']
DirNameAtOutput(c) == c.configs.output
DirName(c) == "ipgen_" \o c.userlogic_topmodule \o ipcore_version
HdlName(c) == "ipgen_" \o c.userlogic_topmodule \o ".v"
TestName(c) == "test_ipgen_" \o c.userlogic_topmodule \o ".v"
memname == "mem.img"
makefilename == "Makefile"
CopiedMemimg(c) == IF c.memimg # None THEN Some(memname) ELSE None
\* memimg.endswith('.bin')
EndsWithBin(name) == name \in {"image.bin"}
Binfile(c) == c.memimg # None /\ EndsWithBin(c.memimg[1])

PackageDefTopParameters(top_parameters) == Map(top_parameters, VisitParam)
PackageDefTopIoports(top_ioports) ==
    [i \in 1..Len(top_ioports) |-> VisitWire(top_ioports[i].name, top_ioports[i])]

\* ----------------------------------------------------- build_package_axi
AxiParamDatatype(r) == IF Count(r, "\"") > 0 THEN "string" ELSE "integer"
AxiParamRow(p) == <<p.name, p.value, AxiParamDatatype(VisitParam(p))>>
IsConfigurable(p) == ~IsLocalparamText(VisitParam(p))
IsLocalparamNode(p) == IsLocalparamText(VisitParam(p))

\* mpd_parameters, were the localparams not skipped
MpdParametersOfAll(top_parameters) ==
    [i \in 1..Len(top_parameters) |-> AxiParamRow(top_parameters[i])]

\* mpd_parameters (first loop) and ext_params (last loop)
MpdParameters(top_parameters) ==
    Map(SelectSeq(top_parameters, IsConfigurable), AxiParamRow)
ExtParams(top_parameters) ==
    Map(SelectSeq(top_parameters, IsConfigurable), AxiParamRow)
\* both loops over top_parameters append the localparams
AxiDefTopLocalparams(top_parameters) ==
    Map(SelectSeq(top_parameters, IsLocalparamNode), VisitParam)
    \o Map(SelectSeq(top_parameters, IsLocalparamNode), VisitParam)

\* a direction test that takes every port that is not an output for an input
AxiPortDirTwoWay(pv) == IF pv.kind = "Output" THEN "O" ELSE "I"

AxiPortDir(pv) ==
    IF pv.kind = "Input" THEN "I" ELSE IF pv.kind = "Output" THEN "O" ELSE "IO"
MpdPortRow(pv) == <<pv.name, AxiPortDir(pv), WidthTokens(pv)>>
MpdPorts(top_ioports) == Map(top_ioports, MpdPortRow)

ExtPortDir(pv) ==
    IF pv.kind = "Input" THEN "in" ELSE IF pv.kind = "Output" THEN "out" ELSE "inout"
ExtPortRow(pv) ==
    <<pv.name, ExtPortDir(pv),
      IF pv.width = None THEN None ELSE Some(pv.pwidth - 1),
      IF pv.width = None THEN None ELSE Some(ReplaceIdentifiers(pv))>>
ExtPorts(top_ioports) == Map(top_ioports, ExtPortRow)

MasterDefinition(m) ==
    [name |-> m.name \o "_AXI", datawidth |-> m.datawidth, master |-> TRUE, lite |-> m.lite]
SlaveDefinition(m) ==
    [name |-> m.name \o "_AXI", datawidth |-> m.datawidth, master |-> FALSE, lite |-> m.lite]
MemoryList(c) == Map(c.masterlist, MasterDefinition) \o Map(c.slavelist, SlaveDefinition)

\* the arguments of ComponentGen.generate
ComponentArgs(c) ==
    [memorylist |-> MemoryList(c),
     ext_addrwidth |-> c.configs.ext_addrwidth,
     ext_burstlength |-> 256,
     ext_ports |-> ExtPorts(c.top_ioports),
     ext_params |-> ExtParams(c.top_parameters)]
XmlCode(c) ==
    [kind |-> "component.xml", name |-> "ipgen_" \o c.userlogic_topmodule,
     dict |-> ComponentArgs(c)]

\* build_package_axi's renders, were the configured burst length passed on
AxiDictConfigured(c, kw) ==
    TemplateDict(c.userlogic_topmodule, c.masterlist, c.slavelist,
                 PackageDefTopParameters(c.top_parameters),
                 AxiDefTopLocalparams(c.top_parameters),
                 PackageDefTopIoports(c.top_ioports),
                 NameTopIoports(c.top_ioports),
                 kw @@ [ext_addrwidth |-> c.configs.ext_addrwidth,
                        ext_burstlength |-> c.configs.ext_burstlength,
                        single_clock |-> c.configs.single_clock])

\* render as build_package_axi calls it: the positional arguments are the same
\* in every call
AxiDict(c, kw) ==
    TemplateDict(c.userlogic_topmodule, c.masterlist, c.slavelist,
                 PackageDefTopParameters(c.top_parameters),
                 AxiDefTopLocalparams(c.top_parameters),
                 PackageDefTopIoports(c.top_ioports),
                 NameTopIoports(c.top_ioports),
                 kw @@ [ext_addrwidth |-> c.configs.ext_addrwidth,
                        ext_burstlength |-> 256,
                        single_clock |-> c.configs.single_clock])

AxiMpdKw(c) ==
    [hdlname |-> Some(HdlName(c)), ipcore_version |-> Some(ipcore_version),
     mpd_ports |-> Some(MpdPorts(c.top_ioports)),
     mpd_parameters |-> Some(MpdParameters(c.top_parameters))]

UserTestCode(c) == IF c.usertest = None THEN None ELSE Some("text of " \o c.usertest[1])

TestKw(c) ==
    [hdlname |-> Some(HdlName(c)),
     memimg |-> CopiedMemimg(c), binfile |-> Binfile(c),
     usertestcode |-> UserTestCode(c),
     simaddrwidth |-> Some(c.configs.sim_addrwidth),
     clock_hperiod_userlogic |-> Some(c.configs.hperiod_ulogic),
     clock_hperiod_bus |-> Some(c.configs.hperiod_bus),
     ignore_protocol_error |-> c.ignore_protocol_error]

MakefileKw(c) == [testname |-> Some(TestName(c))]

\* a step that is taken only under a condition
When(cond, steps) == IF cond THEN steps ELSE <<>>

\* the TCL script with the template's text in either clock mode
TclCodeOfTemplate(c) == <<ReadTemplateText("pcore_tcl.tcl")>>

\* tcl_code = '' / open(TEMPLATE_DIR+'pcore_tcl.tcl', 'r').read()
TclCode(c) ==
    When(~c.configs.single_clock, <<ReadTemplateText("pcore_tcl.tcl")>>)
\* xdc_code = '' / open(TEMPLATE_DIR+'ipxact.xdc', 'r').read()
XdcCode(c) ==
    When(~c.configs.single_clock, <<ReadTemplateText("ipxact.xdc")>>)

\* the memory image is never copied
CopyMemimgNever(c) == <<>>

\* if memimg is not None: shutil.copyfile(memimg, testpath + memname)
CopyMemimg(c) ==
    When(c.memimg # None, <<CopyStep(c.memimg, <<DirName(c), "test", memname>>)>>)

AxiMkdirs(c) ==
    << MkdirStep(<<DirName(c)>>),
       MkdirStep(<<DirName(c), "data">>),
       MkdirStep(<<DirName(c), "doc">>),
       MkdirStep(<<DirName(c), "bd">>),
       MkdirStep(<<DirName(c), "xgui">>),
       MkdirStep(<<DirName(c), "hdl">>),
       MkdirStep(<<DirName(c), "hdl", "verilog">>),
       MkdirStep(<<DirName(c), "test">>) >>

AxiPlan(c) ==
    LET d    == DirName(c)
        top  == c.userlogic_topmodule
        dual == ~c.configs.single_clock
        mpd  == AxiDict(c, AxiMpdKw(c))
        test == AxiDict(c, TestKw(c))
        make == AxiDict(c, MakefileKw(c))
    IN  AxiMkdirs(c)
     \o << RenderStep("mpd.txt", mpd),
           WriteStep(<<d, "data", "ipgen_" \o top \o mpd_version \o ".mpd">>,
                     <<Rendered("mpd.txt", mpd)>>),
           RenderStep("pao.txt", mpd),
           WriteStep(<<d, "data", "ipgen_" \o top \o mpd_version \o ".pao">>,
                     <<Rendered("pao.txt", mpd)>>) >>
     \o When(dual, <<ReadTemplateStep("pcore_tcl.tcl")>>)
     \o << WriteStep(<<d, "data", "ipgen_" \o top \o mpd_version \o ".tcl">>,
                     TclCode(c)),
           Step("componentgen", "ipgen_" \o top, ComponentArgs(c)),
           WriteStep(<<d, "component.xml">>, <<XmlCode(c)>>) >>
     \o When(dual, <<ReadTemplateStep("ipxact.xdc")>>)
     \o << WriteStep(<<d, "data", "ipgen_" \o top \o ".xdc">>,
                     XdcCode(c)),
           ReadTemplateStep("bd.tcl"),
           WriteStep(<<d, "bd", "bd.tcl">>, <<ReadTemplateText("bd.tcl")>>),
           RenderStep("xgui_tcl.txt", mpd),
           WriteStep(<<d, "xgui", "xgui.tcl">>,
                     <<Rendered("xgui_tcl.txt", mpd)>>),
           WriteStep(<<d, "hdl", "verilog", HdlName(c)>>,
                     SynthesizedCode(c) \o CommonCode(c.configs.if_type)) >>
     \o When(c.usertest # None, <<ReadStep(c.usertest)>>)
     \o << RenderStep("test_ipgen_axi.txt", test),
           WriteStep(<<d, "test", TestName(c)>>,
                     <<Rendered("test_ipgen_axi.txt", test),
                       ReadTemplateText("axi_master_fifo.v")>>),
           ReadTemplateStep("axi_master_fifo.v") >>
     \o CopyMemimg(c)
     \o << RenderStep("Makefile.txt", make),
           WriteStep(<<d, "test", makefilename>>,
                     <<Rendered("Makefile.txt", make)>>) >>


\* -------------------------------------------------- build_package_avalon
\* the Avalon datatype, were it inferred as build_package_axi infers it
AvalonParamDatatypeAsAxi(r) == IF Count(r, "\"") > 0 THEN "STRING" ELSE "INTEGER"

AvalonParamDatatype(r) ==
    IF Count(r, "\"") > 0 THEN "STRING"
    ELSE IF Count(r, "integer") > 0 THEN "INTEGER"
    ELSE "STD_LOGIC_VECTOR"
AvalonParamRow(p) == <<p.name, p.value, AvalonParamDatatype(VisitParam(p))>>
TclParameters(top_parameters) ==
    Map(SelectSeq(top_parameters, IsConfigurable), AvalonParamRow)
AvalonDefTopLocalparams(top_parameters) ==
    Map(SelectSeq(top_parameters, IsLocalparamNode), VisitParam)

AvalonPortDir(pv) ==
    IF pv.kind = "Input" THEN "Input"
    ELSE IF pv.kind = "Output" THEN "Output" ELSE "Inout"
\* _vec = str(pwidth)
TclPortRow(pv) == <<pv.name, AvalonPortDir(pv), <<pv.pwidth>>>>
TclPorts(top_ioports) == Map(top_ioports, TclPortRow)

common_hdlname == "ipgen_common.v"

AvalonDict(c, kw) ==
    TemplateDict(c.userlogic_topmodule, c.masterlist, c.slavelist,
                 PackageDefTopParameters(c.top_parameters),
                 AvalonDefTopLocalparams(c.top_parameters),
                 PackageDefTopIoports(c.top_ioports),
                 NameTopIoports(c.top_ioports),
                 kw @@ [ext_addrwidth |-> c.configs.ext_addrwidth,
                        ext_burstlength |-> 256,
                        single_clock |-> c.configs.single_clock])

AvalonTclKw(c) ==
    [hdlname |-> Some(HdlName(c)), common_hdlname |-> Some(common_hdlname),
     tcl_ports |-> Some(TclPorts(c.top_ioports)),
     tcl_parameters |-> Some(TclParameters(c.top_parameters))]

AvalonTestKw(c) == [common_hdlname |-> Some(common_hdlname)] @@ TestKw(c)

AvalonMkdirs(c) ==
    << MkdirStep(<<DirName(c)>>),
       MkdirStep(<<DirName(c), "hdl">>),
       MkdirStep(<<DirName(c), "hdl", "verilog">>),
       MkdirStep(<<DirName(c), "test">>) >>

AvalonPlan(c) ==
    LET d   == DirName(c)
        top == c.userlogic_topmodule
        tcl  == AvalonDict(c, AvalonTclKw(c))
        test == AvalonDict(c, AvalonTestKw(c))
        make == AvalonDict(c, MakefileKw(c))
    IN  AvalonMkdirs(c)
     \o << RenderStep("qsys_tcl.txt", tcl),
           WriteStep(<<d, "hdl", "verilog", "ipgen_" \o top \o ".tcl">>,
                     <<Rendered("qsys_tcl.txt", tcl)>>),
           WriteStep(<<d, "hdl", "verilog", HdlName(c)>>, SynthesizedCode(c)),
           WriteStep(<<d, "hdl", "verilog", common_hdlname>>,
                     CommonCode(c.configs.if_type)) >>
     \o When(c.usertest # None, <<ReadStep(c.usertest)>>)
     \o << RenderStep("test_ipgen_avalon.txt", test),
           WriteStep(<<d, "test", TestName(c)>>,
                     <<Rendered("test_ipgen_avalon.txt", test),
                       ReadTemplateText("avalon_master_fifo.v")>>),
           ReadTemplateStep("avalon_master_fifo.v") >>
     \o CopyMemimg(c)
     \o << RenderStep("Makefile.txt", make),
           WriteStep(<<d, "test", makefilename>>,
                     <<Rendered("Makefile.txt", make)>>) >>

\* ------------------------------------------------------------ build, whole
Supported(if_type) == if_type \in {"general", "axi", "avalon"}

\* the packager build dispatches to (lines 192-208); none for another if_type
PackagePlan(c) ==
    IF c.configs.if_type = "general" THEN GeneralPlan(c)
    ELSE IF c.configs.if_type = "axi" THEN AxiPlan(c)
    ELSE IF c.configs.if_type = "avalon" THEN AvalonPlan(c)
    ELSE <<>>

\* build, were the settings printed once the packager has returned
BuildPlanLogLast(c) ==
    SubSeq(Prologue(c), 1, Len(Prologue(c)) - 1)
    \o PackagePlan(c) \o <<Prologue(c)[Len(Prologue(c))]>>

\* everything build does after the clock check, in program order
BuildPlan(c) == Prologue(c) \o PackagePlan(c)

\* ------------------------------------------------------------ file system
(* fs.dirs is the set of directories, fs.files maps the path of every file  *)
(* to its content.  The root (the working directory) always exists.  Files  *)
(* under TEMPLATE_DIR ship with the package; a file the caller names        *)
(* exists unless it is one of Unreadable.                                   *)
Unreadable == {"missing.v", "missing.img"}
Readable(path) == path[Len(path)] \notin Unreadable
Parent(path) == SubSeq(path, 1, Len(path) - 1)
Exists(f, path) == path \in f.dirs \/ path \in DOMAIN f.files

\* os.mkdir called whether or not the directory exists
MkdirAlways(step, f) == step.op = "mkdir"

\* `if not os.path.exists(p): os.mkdir(p)` calls os.mkdir
MkdirActs(step, f) == step.op = "mkdir" /\ ~Exists(f, step.arg)

\* the directories there are before step i, the steps before it having run
DirsBefore(plan, f, i) ==
    f.dirs \cup {plan[j].arg : j \in {h \in 1..(i - 1) : MkdirActs(plan[h], f)}}

\* step i raises (IOError / OSError)
Fails(plan, f, i) ==
    LET s == plan[i]
    IN  \/ s.op = "read" /\ ~Readable(s.arg)
        \/ s.op = "copy" /\ ~Readable(s.data)
        \/ s.op \in {"write", "copy"} /\ Parent(s.arg) \notin DirsBefore(plan, f, i)
        \/ MkdirActs(s, f) /\ Parent(s.arg) \notin DirsBefore(plan, f, i)

\* the first step that raises, Len(plan) + 1 if none does
FailIndex(plan, f) ==
    IF \E i \in 1..Len(plan) : Fails(plan, f, i)
    THEN CHOOSE i \in 1..Len(plan) :
            Fails(plan, f, i) /\ \A j \in 1..(i - 1) : ~Fails(plan, f, j)
    ELSE Len(plan) + 1

\* the steps that run, were a failing step skipped and the build continued
ExecutedAll(plan, f) == plan

\* the steps that ran: there is no retry and nothing is undone
Executed(plan, f) == SubSeq(plan, 1, FailIndex(plan, f) - 1)

IsFileStep(step) == step.op \in {"write", "copy"}
ContentOf(step) == IF step.op = "copy" THEN <<FileText(step.data)>> ELSE step.data

\* the file system after the steps ran: a write replaces the file's content
FsAfter(steps, f) ==
    LET made    == {steps[i].arg : i \in {h \in 1..Len(steps) : MkdirActs(steps[h], f)}}
        written == {steps[i].arg : i \in {h \in 1..Len(steps) : IsFileStep(steps[h])}}
        last(p) == CHOOSE i \in 1..Len(steps) :
                      /\ IsFileStep(steps[i]) /\ steps[i].arg = p
                      /\ \A j \in (i + 1)..Len(steps) :
                            ~(IsFileStep(steps[j]) /\ steps[j].arg = p)
    IN  [dirs  |-> f.dirs \cup made,
         files |-> [p \in DOMAIN f.files \cup written |->
                      IF p \in written THEN ContentOf(steps[last(p)])
                      ELSE f.files[p]]]

\* what the caller can observe of a step: the content written is in fs
Event(step) ==
    [op |-> step.op, arg |-> step.arg,
     data |-> IF step.op \in {"render", "componentgen"} THEN step.data ELSE <<>>]
ActsOn(step, f) == step.op # "mkdir" \/ MkdirActs(step, f)
TraceOf(steps, f) ==
    LET acts(step) == ActsOn(step, f)
    IN  Map(SelectSeq(steps, acts), Event)

\* how build ends, plan being BuildPlan(c)
BuildResult(c, plan, f) ==
    IF ClockError(c.configs) THEN "ValueError: clock periods"
    ELSE IF FailIndex(plan, f) <= Len(plan) THEN "IOError"
    ELSE IF ~Supported(c.configs.if_type) THEN "ValueError: interface type"
    ELSE "ok"

\* -------------------------------------------------------------- the calls
IfTypes == {"general", "axi", "avalon", "wishborn"}
HalfPeriods == {5, 10}
\* what the caller chooses besides the family and the clocks: the output
\* path, the burst length, the memory image and the user test code
RunOptions ==
    { [output |-> "out.v", ext_burstlength |-> 256,
       memimg |-> None,                usertest |-> None],
      [output |-> "top.v", ext_burstlength |-> 16,
       memimg |-> Some("image.img"),   usertest |-> None],
      [output |-> "out.v", ext_burstlength |-> 16,
       memimg |-> Some("image.bin"),   usertest |-> Some("usertest.v")],
      [output |-> "top.v", ext_burstlength |-> 256,
       memimg |-> None,                usertest |-> Some("missing.v")],
      [output |-> "out.v", ext_burstlength |-> 256,
       memimg |-> Some("missing.img"), usertest |-> Some("usertest.v")] }

Configs(o) ==
    { [if_type |-> t, single_clock |-> sc,
       hperiod_ulogic |-> 5, hperiod_bus |-> hb,
       ext_addrwidth |-> 32, sim_addrwidth |-> 27,
       ext_burstlength |-> o.ext_burstlength, output |-> o.output] :
      t \in IfTypes, sc \in BOOLEAN, hb \in HalfPeriods }

\* the module interfaces RtlConverter reports
Interfaces ==
    { i \in [top_parameters : SubLists(ParamPool, MaxEntries),
             top_ioports : SubLists(PortPool, MaxEntries)] :
        Len(i.top_parameters) + Len(i.top_ioports) <= MaxEntries }

Calls ==
    UNION { {
      [configs |-> cf,
       userlogic_topmodule |-> "foo",
       top_parameters |-> i.top_parameters,
       top_ioports |-> i.top_ioports,
       masterlist |-> <<[name |-> "m0", datawidth |-> 32, lite |-> FALSE]>>,
       slavelist |-> <<[name |-> "s0", datawidth |-> 32, lite |-> TRUE]>>,
       memimg |-> r.memimg, usertest |-> r.usertest,
       ignore_protocol_error |-> FALSE] :
      cf \in Configs(r), i \in Interfaces } : r \in RunOptions }

NoCall == <<>>
EmptyFs == [dirs |-> {<<>>}, files |-> <<>>]

Init ==
    /\ fs = EmptyFs
    /\ call = NoCall
    /\ result = "none"
    /\ trace = <<>>
    /\ nbuilds = 0
    /\ log2_values = Log2Table

\* SystemBuilder.build(configs, userlogic_topmodule, userlogic_filelist, ...)
DoBuild(c) ==
    \E plan \in {BuildPlan(c)} :
    \E done \in {Executed(plan, fs)} :
        /\ call' = c
        /\ nbuilds' = nbuilds + 1
        /\ UNCHANGED log2_values
        /\ result' = BuildResult(c, plan, fs)
        /\ IF ClockError(c.configs)
           THEN /\ trace' = <<>>
                /\ fs' = fs
           ELSE /\ trace' = TraceOf(done, fs)
                /\ fs' = FsAfter(done, fs)

\* the first build, in an empty working directory
Build == nbuilds = 0 /\ \E c \in Calls : DoBuild(c)

\* the same build again, on the tree the builds before it left
Rebuild == nbuilds \in 1..(MaxBuilds - 1) /\ DoBuild(call)

Next == Build \/ Rebuild

Spec == Init /\ [][Next]_vars

\* --------------------------------------------------- render, called alone
RenderTemplates == {"node_axi.txt", "mpd.txt"}
BurstLengths == {2 ^ k : k \in 0..MaxK}

\* SystemBuilder.render(template_file, ..., ext_burstlength=L, single_clock=sc)
Render(template_file, L, sc) ==
    /\ call' = [template_file |-> template_file,
                ext_burstlength |-> L, single_clock |-> sc]
    /\ result' = "rendered"
    /\ trace' = <<Event(RenderStep(template_file,
                    TemplateDict("foo", <<>>, <<>>, <<>>, <<>>, <<>>, <<>>,
                                 [ext_burstlength |-> L, single_clock |-> sc])))>>
    /\ UNCHANGED <<fs, nbuilds, log2_values>>

RenderCall ==
    \E template_file \in RenderTemplates, L \in BurstLengths, sc \in BOOLEAN :
        Render(template_file, L, sc)

SpecRender == Init /\ [][RenderCall]_vars

\* ------------------------------------------------------------- properties
\* build has been called, and call holds its arguments
Built == call # NoCall
\* the positions of the trace where one of the operations ops happened
EventsOf(ops) == {i \in DOMAIN trace : trace[i].op \in ops}
\* the renders of one of the template files
RendersOf(files) == {i \in EventsOf({"render"}) : trace[i].arg \in files}
Artifacts == EventsOf({"mkdir", "write", "copy"})
Under(path, root) ==
    Len(path) >= Len(root) /\ SubSeq(path, 1, Len(root)) = root
HasToken(r, tok) == \E i \in 1..Len(r) : r[i] = tok
RowNames(rows) == [i \in 1..Len(rows) |-> rows[i][1]]
\* the entries of call's list the rows' first fields name
EntriesNamed(list, name) == {list[i] : i \in {h \in 1..Len(list) : list[h].name = name}}
IsAxi == Built /\ call.configs.if_type = "axi"
IsAvalon == Built /\ call.configs.if_type = "avalon"
PackageDir == "ipgen_" \o call.userlogic_topmodule \o "_v1_00_a"
MpdRenders == RendersOf({"mpd.txt", "pao.txt", "xgui_tcl.txt"})
TclRenders == RendersOf({"qsys_tcl.txt"})

\* C1: a build with single_clock set and differing half periods ends with the
\* clock-period ValueError and has analyzed nothing, created no directory and
\* written no file; with single_clock unset, differing half periods never
\* raise that error.
C1_ClockCheckComesFirst ==
    Built =>
        /\ (call.configs.single_clock
              /\ call.configs.hperiod_ulogic # call.configs.hperiod_bus)
             => /\ result = "ValueError: clock periods"
                /\ trace = <<>>
                /\ fs = EmptyFs
        /\ ~call.configs.single_clock => result # "ValueError: clock periods"

C1_ClockErrorRaised ==
    /\ Built
    /\ call.configs.single_clock
    /\ call.configs.hperiod_ulogic # call.configs.hperiod_bus
    /\ result = "ValueError: clock periods"

\* C2, as claimed: a build whose if_type is none of general, axi, avalon ends
\* with a ValueError before anything is analyzed, rendered, read or written.
C2_UnsupportedAbortsFirst ==
    (Built /\ call.configs.if_type \notin {"general", "axi", "avalon"}) =>
        /\ result \in {"ValueError: clock periods", "ValueError: interface type"}
        /\ EventsOf({"analyze", "render", "read", "write", "mkdir", "copy"}) = {}

\* C3, as claimed: every directory a build creates and every file it writes
\* lies under configs['output'].
C3_ArtifactsUnderOutput ==
    Built => \A i \in Artifacts : Under(trace[i].arg, <<call.configs.output>>)

\* C3, amended: a general build writes at configs['output'] and nowhere else;
\* every directory an axi or avalon build creates and every file it writes
\* lies in ipgen_<m>_v1_00_a of the working directory, a path configs['output']
\* has no part in.
C3_ArtifactLocations ==
    Built => \A i \in Artifacts :
        IF call.configs.if_type = "general"
        THEN trace[i].arg = <<call.configs.output>>
        ELSE Under(trace[i].arg, <<PackageDir>>)

C3_PackageBesideOutput ==
    /\ IsAxi /\ result = "ok"
    /\ call.configs.output = "top.v"
    /\ <<PackageDir, "component.xml">> \in DOMAIN fs.files
    /\ \E i \in Artifacts : trace[i].arg = <<PackageDir, "component.xml">>

\* C4: a successful general build creates no directory and writes one file,
\* at configs['output']; the file holds the rendered node_general.txt, then
\* the regenerated user-logic code, then the shared interface source, which
\* is empty.
C4_GeneralWritesOneFile ==
    (Built /\ call.configs.if_type = "general" /\ result = "ok") =>
        LET out == <<call.configs.output>>
        IN  /\ EventsOf({"mkdir"}) = {}
            /\ Cardinality(EventsOf({"write", "copy"})) = 1
            /\ \A i \in EventsOf({"write", "copy"}) : trace[i].arg = out
            /\ fs.dirs = {<<>>}
            /\ DOMAIN fs.files = {out}
            /\ Len(fs.files[out]) = 2
            /\ fs.files[out][1].kind = "rendered"
            /\ fs.files[out][1].name = "node_general.txt"
            /\ \E i \in RendersOf({"node_general.txt"}) :
                  trace[i].data = fs.files[out][1].dict
            /\ fs.files[out][2] =
                  [kind |-> "userlogic_code", name |-> call.userlogic_topmodule]

C4_GeneralBuilt ==
    /\ Built /\ call.configs.if_type = "general" /\ result = "ok"
    /\ <<call.configs.output>> \in DOMAIN fs.files

\* C5: after a successful axi or avalon build of module m in an empty tree,
\* the files in ipgen_m_v1_00_a are the family's list, and test/mem.img is
\* among them exactly if a memory image was named.
C5_PackageFileSet ==
    (Built /\ nbuilds = 1 /\ result = "ok"
       /\ call.configs.if_type \in {"axi", "avalon"}) =>
        LET m == call.userlogic_topmodule
            d == PackageDir
            axi == { <<d, "data", "ipgen_" \o m \o "_v2_1_0.mpd">>,
                     <<d, "data", "ipgen_" \o m \o "_v2_1_0.pao">>,
                     <<d, "data", "ipgen_" \o m \o "_v2_1_0.tcl">>,
                     <<d, "component.xml">>,
                     <<d, "data", "ipgen_" \o m \o ".xdc">>,
                     <<d, "bd", "bd.tcl">>,
                     <<d, "xgui", "xgui.tcl">>,
                     <<d, "hdl", "verilog", "ipgen_" \o m \o ".v">>,
                     <<d, "test", "test_ipgen_" \o m \o ".v">>,
                     <<d, "test", "Makefile">> }
            avalon == { <<d, "hdl", "verilog", "ipgen_" \o m \o ".tcl">>,
                        <<d, "hdl", "verilog", "ipgen_" \o m \o ".v">>,
                        <<d, "hdl", "verilog", "ipgen_common.v">>,
                        <<d, "test", "test_ipgen_" \o m \o ".v">>,
                        <<d, "test", "Makefile">> }
            mem == IF call.memimg = None THEN {} ELSE {<<d, "test", "mem.img">>}
        IN  {p \in DOMAIN fs.files : p[1] = d}
              = (IF call.configs.if_type = "axi" THEN axi ELSE avalon) \cup mem

C5_PackageWithMemimg ==
    /\ IsAxi /\ nbuilds = 1 /\ result = "ok"
    /\ call.memimg # None
    /\ <<PackageDir, "test", "mem.img">> \in DOMAIN fs.files

\* the names of call's parameters whose rendered declaration does not hold
\* the word localparam, in the order of top_parameters
IsConfigurableEntry(p) == ~HasToken(VisitParam(p), "localparam")
ConfigurableNames ==
    Map(SelectSeq(call.top_parameters, IsConfigurableEntry), NameOf)
PortNames == [i \in 1..Len(call.top_ioports) |-> call.top_ioports[i].name]

IsQuoted(p) == HasToken(p.value, "\"")
IsPlainInteger(p) == p.value \in {<<"42">>, <<"16">>, <<"1">>}
\* the datatype C7 claims, in the family's spelling
ClaimedDatatype(p) ==
    IF IsQuoted(p) THEN "STRING"
    ELSE IF IsPlainInteger(p) \/ HasToken(VisitParam(p), "integer") THEN "INTEGER"
    ELSE "STD_LOGIC_VECTOR"
LowerCase(dt) ==
    CASE dt = "STRING" -> "string"
      [] dt = "INTEGER" -> "integer"
      [] dt = "STD_LOGIC_VECTOR" -> "std_logic_vector"
\* every row of the table is typed as typed(p) says of the row's parameter p
RowsTyped(rows, typed(_)) ==
    \A j \in 1..Len(rows) :
        \A p \in EntriesNamed(call.top_parameters, rows[j][1]) :
            rows[j][3] = typed(p)

\* C7, as claimed: in the axi and in the avalon profile a configurable
\* parameter is typed string if its literal is quoted, integer if its literal
\* reads as a plain integer or its declaration holds the keyword integer,
\* and as a bit vector otherwise.
C7_DatatypeByLiteral ==
    /\ IsAxi => \A i \in MpdRenders :
          LET typed(p) == LowerCase(ClaimedDatatype(p))
          IN  RowsTyped(trace[i].data.mpd_parameters, typed)
    /\ IsAvalon => \A i \in TclRenders :
          RowsTyped(trace[i].data.tcl_parameters, ClaimedDatatype)

\* C7, amended: the axi profile types a configurable parameter 'string' if
\* its rendered declaration holds a double quote and 'integer' otherwise,
\* never as a bit vector; the avalon profile types it STRING if the
\* declaration holds a double quote, else INTEGER if the declaration holds
\* the word integer, else STD_LOGIC_VECTOR, so that parameter X = 42 is an
\* integer in axi and a STD_LOGIC_VECTOR in avalon.
C7_DatatypeByFamily ==
    /\ IsAxi => \A i \in MpdRenders \cup EventsOf({"componentgen"}) :
          LET typed(p) == IF HasToken(VisitParam(p), "\"") THEN "string"
                          ELSE "integer"
              rows == IF trace[i].op = "render"
                      THEN trace[i].data.mpd_parameters
                      ELSE trace[i].data.ext_params
          IN  RowsTyped(rows, typed)
    /\ IsAvalon => \A i \in TclRenders :
          LET typed(p) == IF HasToken(VisitParam(p), "\"") THEN "STRING"
                          ELSE IF HasToken(VisitParam(p), "integer") THEN "INTEGER"
                          ELSE "STD_LOGIC_VECTOR"
          IN  RowsTyped(trace[i].data.tcl_parameters, typed)

C7_PlainIntegerIsVector ==
    /\ IsAvalon /\ result = "ok"
    /\ \E i \in TclRenders :
          \E j \in 1..Len(trace[i].data.tcl_parameters) :
              trace[i].data.tcl_parameters[j] = <<"WIDTH", <<"42">>, "STD_LOGIC_VECTOR">>

\* every row of the table has the direction dir(pv) of the row's port pv
RowsDirected(rows, dir(_)) ==
    \A j \in 1..Len(rows) :
        \A pv \in EntriesNamed(call.top_ioports, rows[j][1]) :
            rows[j][2] = dir(pv)

\* C8: every port gets a direction and classifying it never ends the build:
\* an input is I in axi and Input in avalon, an output is O and Output, and
\* a port of any other kind is IO and Inout.
C8_PortDirections ==
    /\ IsAxi => \A i \in MpdRenders :
          LET dir(pv) == CASE pv.kind = "Input" -> "I"
                           [] pv.kind = "Output" -> "O"
                           [] OTHER -> "IO"
          IN  RowsDirected(trace[i].data.mpd_ports, dir)
    /\ IsAvalon => \A i \in TclRenders :
          LET dir(pv) == CASE pv.kind = "Input" -> "Input"
                           [] pv.kind = "Output" -> "Output"
                           [] OTHER -> "Inout"
          IN  RowsDirected(trace[i].data.tcl_ports, dir)
    /\ (IsAxi /\ result # "ValueError: clock periods") =>
          \E i \in RendersOf({"mpd.txt"}) :
              Len(trace[i].data.mpd_ports) = Len(call.top_ioports)
    /\ (IsAvalon /\ result # "ValueError: clock periods") =>
          \E i \in TclRenders :
              Len(trace[i].data.tcl_ports) = Len(call.top_ioports)

C8_UnknownPortIsInout ==
    /\ IsAxi
    /\ \E i \in RendersOf({"mpd.txt"}) :
          \E j \in 1..Len(trace[i].data.mpd_ports) :
              /\ trace[i].data.mpd_ports[j][1] = "aux"
              /\ trace[i].data.mpd_ports[j][2] = "IO"

\* C9, as claimed: for a burst length that is a power of two, render puts its
\* exact base-2 logarithm in the template context as ext_burstlen_width.
C9_WidthIsExactLog2 ==
    \A i \in EventsOf({"render"}) :
        2 ^ trace[i].data.ext_burstlen_width = trace[i].data.ext_burstlength

\* C10, as claimed: every render of a build, and the descriptor generator,
\* gets the burst length configs['ext_burstlength'] names.
C10_ConfiguredBurstLength ==
    Built => \A i \in EventsOf({"render", "componentgen"}) :
        trace[i].data.ext_burstlength = call.configs.ext_burstlength

\* C10, amended: build does not read configs['ext_burstlength']: every render
\* of a build gets the burst length 256 and the width 8, and the descriptor
\* generator gets 256, whatever burst length is configured.
C10_BurstLengthFixed ==
    Built =>
        /\ \A i \in EventsOf({"render", "componentgen"}) :
              trace[i].data.ext_burstlength = 256
        /\ \A i \in EventsOf({"render"}) :
              trace[i].data.ext_burstlen_width = 8

C10_ConfiguredLengthIgnored ==
    /\ IsAxi /\ result = "ok"
    /\ call.configs.ext_burstlength = 16
    /\ \E i \in EventsOf({"componentgen"}) : trace[i].data.ext_burstlength = 256
    /\ \E i \in RendersOf({"mpd.txt"}) : trace[i].data.ext_burstlength = 256

\* C11: a build repeated with the same arguments on the tree a successful
\* build left succeeds, creates no directory, and leaves the file system,
\* every directory and every file's content, as it was.
C11_RebuildChangesNothing ==
    [][(nbuilds >= 1 /\ result = "ok") =>
          /\ result' = "ok"
          /\ fs' = fs
          /\ {i \in DOMAIN trace' : trace'[i].op = "mkdir"} = {}
          /\ {i \in DOMAIN trace' : trace'[i].op \in {"write", "copy"}} # {}]_vars

C11_PackageBuiltTwice ==
    /\ IsAxi /\ nbuilds = 2 /\ result = "ok"
    /\ call.memimg # None
    /\ EventsOf({"mkdir"}) = {}
    /\ \E i \in EventsOf({"write"}) : trace[i].arg = <<PackageDir, "component.xml">>
    /\ <<PackageDir, "test", "mem.img">> \in DOMAIN fs.files

\* C12: a successful axi build writes data/ipgen_<m>_v2_1_0.tcl and
\* data/ipgen_<m>.xdc in either clock mode, empty if single_clock is set and
\* with the text of pcore_tcl.tcl and of ipxact.xdc if it is not; the other
\* axi artifacts are written in both modes.
C12_ClockModeFiles ==
    (IsAxi /\ result = "ok") =>
        LET m == call.userlogic_topmodule
            d == PackageDir
            tcl == <<d, "data", "ipgen_" \o m \o "_v2_1_0.tcl">>
            xdc == <<d, "data", "ipgen_" \o m \o ".xdc">>
            others == { <<d, "data", "ipgen_" \o m \o "_v2_1_0.mpd">>,
                        <<d, "data", "ipgen_" \o m \o "_v2_1_0.pao">>,
                        <<d, "component.xml">>,
                        <<d, "bd", "bd.tcl">>,
                        <<d, "xgui", "xgui.tcl">>,
                        <<d, "hdl", "verilog", "ipgen_" \o m \o ".v">>,
                        <<d, "test", "test_ipgen_" \o m \o ".v">>,
                        <<d, "test", "Makefile">> }
            written == {trace[i].arg : i \in EventsOf({"write"})}
        IN  /\ {tcl, xdc} \cup others \subseteq written
            /\ fs.files[tcl] =
                  IF call.configs.single_clock THEN <<>>
                  ELSE <<[kind |-> "file", name |-> <<"TEMPLATE_DIR", "pcore_tcl.tcl">>]>>
            /\ fs.files[xdc] =
                  IF call.configs.single_clock THEN <<>>
                  ELSE <<[kind |-> "file", name |-> <<"TEMPLATE_DIR", "ipxact.xdc">>]>>

C12_SingleClockEmptyFiles ==
    /\ IsAxi /\ result = "ok" /\ call.configs.single_clock
    /\ <<PackageDir, "data", "ipgen_" \o call.userlogic_topmodule \o ".xdc">>
          \in DOMAIN fs.files
    /\ fs.files[<<PackageDir, "data",
                  "ipgen_" \o call.userlogic_topmodule \o "_v2_1_0.tcl">>] = <<>>

C14_NoRollbackNoRetry ==
    (Built /\ result = "IOError") =>
        LET d == PackageDir
            hdl == <<d, "hdl", "verilog", "ipgen_" \o call.userlogic_topmodule \o ".v">>
            test == <<d, "test", "test_ipgen_" \o call.userlogic_topmodule \o ".v">>
            mem == <<d, "test", "mem.img">>
            make == <<d, "test", "Makefile">>
            writes == EventsOf({"write", "copy"})
            written == {trace[i].arg : i \in writes}
        IN  /\ call.configs.if_type \in {"axi", "avalon"}
            /\ Cardinality(writes) = Cardinality(written)
            /\ Cardinality(EventsOf({"read"})) =
                  Cardinality({trace[i].arg : i \in EventsOf({"read"})})
            /\ written = DOMAIN fs.files
            /\ hdl \in written
            /\ fs.files[hdl][1].kind = "rendered"
            /\ fs.files[hdl][2] =
                  [kind |-> "userlogic_code", name |-> call.userlogic_topmodule]
            /\ make \notin written
            /\ mem \notin written
            /\ IF call.usertest = <<"missing.v">>
               THEN test \notin written
               ELSE /\ call.memimg = <<"missing.img">>
                    /\ test \in written
                    /\ fs.files[test][1].kind = "rendered"

C14_MemimgCopyFailed ==
    /\ IsAxi /\ result = "IOError"
    /\ call.memimg = <<"missing.img">>
    /\ <<PackageDir, "test", "test_ipgen_" \o call.userlogic_topmodule \o ".v">>
          \in DOMAIN fs.files
    /\ <<PackageDir, "test", "Makefile">> \notin DOMAIN fs.files

\* the entries of a declaration list that declare parameter p (build's node
\* render gets the declarations with ';' turned into ',')
Occurrences(list, p) ==
    Cardinality({i \in 1..Len(list) :
        list[i] \in {VisitParam(p), Replace(VisitParam(p), ";", ",")}})

\* C15, as claimed: in every render of every profile a parameter whose
\* rendered declaration holds the word localparam is in def_top_localparams
\* once and not in def_top_parameters, and any other parameter is in
\* def_top_parameters once and not in def_top_localparams.
C15_ParametersPartitioned ==
    Built => \A i \in EventsOf({"render"}) :
        \A k \in 1..Len(call.top_parameters) :
            LET p == call.top_parameters[k]
                params == Occurrences(trace[i].data.def_top_parameters, p)
                locals == Occurrences(trace[i].data.def_top_localparams, p)
            IN  IF HasToken(VisitParam(p), "localparam")
                THEN locals = 1 /\ params = 0
                ELSE params = 1 /\ locals = 0

=============================================================================
